---- MODULE Spec2Model ----
(***************************************************************************)
(* A model of DynamicArray (data-structures/dymanic_array/dynamic_array.py) *)
(*                                                                         *)
(* The array is the triple (capacity, size, data).  Every method is a pure *)
(* operator on that triple, computed the way the Python code computes it   *)
(* (the loops are recursive operators that perform the same writes in the  *)
(* same order), and one action per public method applies it to the state.  *)
(* Specification Spec runs whole method calls.  Specification StepSpec     *)
(* runs the same methods one statement at a time, so that the states       *)
(* between the statements of a call can be inspected; StepFairSpec adds    *)
(* that a called method keeps running.  Specification StringSpec applies   *)
(* the three functions of algorithms/strings/string_utility_methods.py to  *)
(* every string of a bounded alphabet.                                     *)
(***************************************************************************)
EXTENDS Integers, Sequences, FiniteSets

VARIABLES
    capacity,         \* self.capacity
    size,             \* self.size
    data,             \* self.data, a function on 0 .. len(self.data)-1
    op,               \* the last call: [name, index, element]
    pre,              \* the array as it was when the last call started
    ret,              \* what the last call returned (None when it returned nothing)
    raised,           \* TRUE iff the last call raised IndexError
    fresh,            \* TRUE iff every call so far was an append
    appended,         \* while fresh: the elements appended, in order
    undo,             \* set by an insert that puts back what the call before it deleted
    pc,               \* StepSpec: the statement about to run ("idle" between calls)
    i,                \* StepSpec: the loop variable i of the running method
    new_data,         \* StepSpec: the local new_data of _resize
    deleted_element,  \* StepSpec: the local deleted_element of delete
    iters,            \* StepSpec: the iterations the running loop has made
    rendered,         \* the text the last __str__ call returned, as characters
    abs,              \* the mathematical sequence run side by side with the array
    absRet,           \* what the last call returned on that sequence
    text,             \* StringSpec: the argument s of the string functions
    textPre,          \* StringSpec: that argument as it was when the last call started
    fn,               \* StringSpec: the function called last
    returned,         \* StringSpec: the sequence reverse_string or remove_duplicates returned
    verdict           \* StringSpec: what is_palindrome returned, and the indices it read

\* the variables of the string functions
strVars == <<text, textPre, fn, returned, verdict>>

vars == <<capacity, size, data, op, pre, ret, raised, fresh, appended, undo,
          pc, i, new_data, deleted_element, iters, rendered, abs, absRet,
          text, textPre, fn, returned, verdict>>

-----------------------------------------------------------------------------
(* Bounds of the model *)

\* append and insert are offered only while size < MaxSize
MaxSize == 5

\* the elements stored are 1 .. NumValues
NumValues == 2

\* the string functions are given every string of at most MaxStrLen characters
MaxStrLen == 4

\* the placeholder None of unused slots; it is not one of the elements
None == 0

Values == 1 .. NumValues

\* the indices offered to insert, delete and get: below, inside and above the array
Indices == -1 .. (MaxSize + 1)

-----------------------------------------------------------------------------
(* Python lists *)

\* [None] * n
NoneList(n) == [k \in 0 .. n - 1 |-> None]

\* len(d)
ListLen(d) == Cardinality(DOMAIN d)

\* d[k] = v
SetItem(d, k, v) == [d EXCEPT ![k] = v]

\* the array object: its three attributes
Self == [capacity |-> capacity, size |-> size, data |-> data]

\* the logical sequence: slots [0, size) of the buffer
Logical(self) == [k \in 0 .. self.size - 1 |-> self.data[k]]

-----------------------------------------------------------------------------
(* DynamicArray, method by method *)

\* __init__: capacity 2, size 0, two placeholder slots
InitCapacity == 2

NewArray == [capacity |-> InitCapacity, size |-> 0, data |-> NoneList(InitCapacity)]

\* the copy loop of _resize: for i in range(self.size): new_data[i] = self.data[i]
RECURSIVE CopyLoop(_, _, _, _)
CopyLoop(nd, old, k, n) ==
    IF k < n THEN CopyLoop(SetItem(nd, k, old[k]), old, k + 1, n) ELSE nd

GrowthFactor == 2

\* a _resize that adds the initial capacity instead of doubling
resize_AddsTwo(self) ==
    LET cap == self.capacity + InitCapacity
    IN  [capacity |-> cap,
         size     |-> self.size,
         data     |-> CopyLoop(NoneList(cap), self.data, 0, self.size)]

\* a _resize that multiplies capacity by four
resize_Quadruples(self) ==
    LET cap == self.capacity * GrowthFactor * GrowthFactor
    IN  [capacity |-> cap,
         size     |-> self.size,
         data     |-> CopyLoop(NoneList(cap), self.data, 0, self.size)]

\* _resize: double capacity, allocate, copy the live elements, install
_resize(self) ==
    LET cap == self.capacity * GrowthFactor
    IN  [capacity |-> cap,
         size     |-> self.size,
         data     |-> CopyLoop(NoneList(cap), self.data, 0, self.size)]

\* a growth test that fires one element early: if self.size + 1 == self.capacity
GrowIfFull_OneEarly(self) ==
    IF self.size + 1 = self.capacity THEN _resize(self) ELSE self

\* if self.size == self.capacity: self._resize()
GrowIfFull(self) == IF self.size = self.capacity THEN _resize(self) ELSE self

\* append: grow when full, write at slot size, increment size
append(self, element) ==
    LET s == GrowIfFull(self)
    IN  [s EXCEPT !.data = SetItem(s.data, s.size, element), !.size = s.size + 1]

\* an insert shift that runs from the low end upward: every slot gets data[index]
RECURSIVE ShiftRight_Upward(_, _, _)
ShiftRight_Upward(d, k, index) ==
    IF index <= k
    THEN ShiftRight_Upward(SetItem(d, index + 1, d[index]), k, index + 1)
    ELSE d

\* the shift loop of insert: i = size-1; while i >= index: data[i+1] = data[i]; i -= 1
RECURSIVE ShiftRight(_, _, _)
ShiftRight(d, k, index) ==
    IF k >= index THEN ShiftRight(SetItem(d, k + 1, d[k]), k - 1, index) ELSE d

\* an insert that grows before it validates the index
insert_GrowsFirst(self, index, element) ==
    LET s == GrowIfFull(self)
    IN  IF index < 0 \/ index > s.size
        THEN [self |-> s, raised |-> TRUE]
        ELSE [self   |-> [s EXCEPT
                            !.data = SetItem(ShiftRight(s.data, s.size - 1, index),
                                             index, element),
                            !.size = s.size + 1],
              raised |-> FALSE]

\* an insert that writes the element before it shifts: the element is shifted too
insert_WritesBeforeShift(self, index, element) ==
    IF index < 0 \/ index > self.size
    THEN [self |-> self, raised |-> TRUE]
    ELSE LET s == GrowIfFull(self)
             d == ShiftRight(SetItem(s.data, index, element), s.size - 1, index)
         IN  [self   |-> [s EXCEPT !.data = d, !.size = s.size + 1],
              raised |-> FALSE]

\* an insert whose range excludes the end: if index < 0 or index >= self.size
insert_RejectsEnd(self, index, element) ==
    IF index < 0 \/ index >= self.size
    THEN [self |-> self, raised |-> TRUE]
    ELSE LET s == GrowIfFull(self)
             d == ShiftRight(s.data, s.size - 1, index)
         IN  [self   |-> [s EXCEPT !.data = SetItem(d, index, element),
                                   !.size = s.size + 1],
              raised |-> FALSE]

\* insert: validate, grow when full, shift right from the high end, write, increment
insert(self, index, element) ==
    IF index < 0 \/ index > self.size
    THEN [self |-> self, raised |-> TRUE]
    ELSE LET s == GrowIfFull(self)
             d == ShiftRight(s.data, s.size - 1, index)
         IN  [self   |-> [s EXCEPT !.data = SetItem(d, index, element),
                                   !.size = s.size + 1],
              raised |-> FALSE]

\* a delete shift that runs from the high end downward: the last element spreads
RECURSIVE ShiftLeft_Downward(_, _, _)
ShiftLeft_Downward(d, k, stop) ==
    IF k < stop
    THEN ShiftLeft_Downward(SetItem(d, stop - 1, d[stop]), k, stop - 1)
    ELSE d

\* the shift loop of delete: for i in range(index, size-1): data[i] = data[i+1]
RECURSIVE ShiftLeft(_, _, _)
ShiftLeft(d, k, stop) ==
    IF k < stop THEN ShiftLeft(SetItem(d, k, d[k + 1]), k + 1, stop) ELSE d

\* a delete that reads the element to return after the shift has overwritten it
delete_ReadsAfterShift(self, index) ==
    IF index < 0 \/ index >= self.size
    THEN [self |-> self, raised |-> TRUE, ret |-> None]
    ELSE LET d == ShiftLeft(self.data, index, self.size - 1)
             n == self.size - 1
         IN  [self   |-> [self EXCEPT !.data = SetItem(d, n, None), !.size = n],
              raised |-> FALSE,
              ret    |-> d[index]]

\* a delete that gives half of the buffer back once the array is a quarter full
delete_Shrinks(self, index) ==
    IF index < 0 \/ index >= self.size
    THEN [self |-> self, raised |-> TRUE, ret |-> None]
    ELSE LET d   == SetItem(ShiftLeft(self.data, index, self.size - 1),
                            self.size - 1, None)
             n   == self.size - 1
             cap == IF self.capacity > InitCapacity /\ n * 4 <= self.capacity
                    THEN self.capacity \div GrowthFactor
                    ELSE self.capacity
         IN  [self   |-> [capacity |-> cap, size |-> n,
                          data |-> [k \in 0 .. cap - 1 |-> d[k]]],
              raised |-> FALSE,
              ret    |-> self.data[index]]

\* a delete that does not clear the slot it vacates
delete_KeepsStaleSlot(self, index) ==
    IF index < 0 \/ index >= self.size
    THEN [self |-> self, raised |-> TRUE, ret |-> None]
    ELSE LET d == ShiftLeft(self.data, index, self.size - 1)
         IN  [self   |-> [self EXCEPT !.data = d, !.size = self.size - 1],
              raised |-> FALSE,
              ret    |-> self.data[index]]

\* delete: validate, capture, shift left from the low end, decrement, clear the slot
delete(self, index) ==
    IF index < 0 \/ index >= self.size
    THEN [self |-> self, raised |-> TRUE, ret |-> None]
    ELSE LET deleted == self.data[index]
             d       == ShiftLeft(self.data, index, self.size - 1)
             n       == self.size - 1
         IN  [self   |-> [self EXCEPT !.data = SetItem(d, n, None), !.size = n],
              raised |-> FALSE,
              ret    |-> deleted]

\* a get that takes the element out of the array
get_Pops(self, index) == delete(self, index)

\* get: validate, return the element
get(self, index) ==
    IF index < 0 \/ index >= self.size
    THEN [self |-> self, raised |-> TRUE, ret |-> None]
    ELSE [self |-> self, raised |-> FALSE, ret |-> self.data[index]]

\* the ten digits
Digit(n) == <<"0", "1", "2", "3", "4", "5", "6", "7", "8", "9">>[n + 1]

\* str(n) of an integer n >= 0: its decimal digits
RECURSIVE Decimal(_)
Decimal(n) == IF n < 10 THEN <<Digit(n)>> ELSE Decimal(n \div 10) \o <<Digit(n % 10)>>

\* str(x) of the content x of a slot: "None" for the placeholder (which this model
\* writes 0), the decimal digits of an element
str(x) == IF x = None THEN <<"N", "o", "n", "e">> ELSE Decimal(x)

\* sep.join(parts)
RECURSIVE join(_, _)
join(sep, parts) ==
    IF Len(parts) = 0 THEN <<>>
    ELSE IF Len(parts) = 1 THEN Head(parts)
    ELSE Head(parts) \o sep \o join(sep, Tail(parts))

\* ['_'] * n
Underscores(n) == [k \in 1 .. n |-> <<"_">>]

\* a __str__ that renders every slot of the buffer before the markers
str_RendersAllSlots(self) ==
    LET elements    == [k \in 1 .. self.capacity |-> str(self.data[k - 1])]
        empty_slots == Underscores(self.capacity - self.size)
    IN  <<"[">> \o join(<<",", " ">>, elements \o empty_slots)
        \o <<"]", " ", "(", "s", "i", "z", "e", ":", " ">> \o Decimal(self.size)
        \o <<",", " ", "c", "a", "p", "a", "c", "i", "t", "y", ":", " ">>
        \o Decimal(self.capacity) \o <<")">>

\* __str__: "[e0, e1, ..., _, _] (size: N, capacity: M)"
__str__(self) ==
    LET elements    == [k \in 1 .. self.size |-> str(self.data[k - 1])]
        empty_slots == Underscores(self.capacity - self.size)
    IN  <<"[">> \o join(<<",", " ">>, elements \o empty_slots)
        \o <<"]", " ", "(", "s", "i", "z", "e", ":", " ">> \o Decimal(self.size)
        \o <<",", " ", "c", "a", "p", "a", "c", "i", "t", "y", ":", " ">>
        \o Decimal(self.capacity) \o <<")">>

-----------------------------------------------------------------------------
(* The mathematical sequence the array stands for: elements 1 .. Len(q) of q *)
(* are positions 0 .. Len(q)-1                                               *)

\* add v at the end
AbsAppend(q, v) == q \o <<v>>

\* put v at position k, or change nothing when k is no position of the result
AbsInsert(q, k, v) ==
    IF k \in 0 .. Len(q)
    THEN [q |-> SubSeq(q, 1, k) \o <<v>> \o SubSeq(q, k + 1, Len(q)), raised |-> FALSE]
    ELSE [q |-> q, raised |-> TRUE]

\* take position k out and return it, or change nothing when k is no position
AbsDelete(q, k) ==
    IF k \in 0 .. Len(q) - 1
    THEN [q |-> SubSeq(q, 1, k) \o SubSeq(q, k + 2, Len(q)),
          raised |-> FALSE, value |-> q[k + 1]]
    ELSE [q |-> q, raised |-> TRUE, value |-> None]

\* return position k
AbsGet(q, k) ==
    IF k \in 0 .. Len(q) - 1
    THEN [q |-> q, raised |-> FALSE, value |-> q[k + 1]]
    ELSE [q |-> q, raised |-> TRUE, value |-> None]

-----------------------------------------------------------------------------
(* The state after construction *)

NoCall == [name |-> "init", index |-> 0, element |-> None]

NoUndo == [valid |-> FALSE, self |-> NewArray]

\* no call has returned anything on the mathematical sequence yet
NoAbsRet == [raised |-> FALSE, value |-> None]

\* no string function has run: is_palindrome has returned nothing and read nothing
NoVerdict == [value |-> TRUE, reads |-> {}]

\* the string variables while only the array is run
StrIdle ==
    /\ text = <<>>
    /\ textPre = <<>>
    /\ fn = "none"
    /\ returned = <<>>
    /\ verdict = NoVerdict

Init ==
    /\ capacity = NewArray.capacity
    /\ size = NewArray.size
    /\ data = NewArray.data
    /\ op = NoCall
    /\ pre = NewArray
    /\ ret = None
    /\ raised = FALSE
    /\ fresh = TRUE
    /\ appended = <<>>
    /\ undo = NoUndo
    /\ pc = "idle"
    /\ i = 0
    /\ new_data = <<>>
    /\ deleted_element = None
    /\ iters = 0
    /\ rendered = <<>>
    /\ abs = <<>>
    /\ absRet = NoAbsRet
    /\ StrIdle

-----------------------------------------------------------------------------
(* Spec: one action per public method, the whole call in one step *)

\* the call leaves the array as s, having returned r or raised
Returns(s, r, e) ==
    /\ capacity' = s.capacity
    /\ size' = s.size
    /\ data' = s.data
    /\ ret' = r
    /\ raised' = e
    /\ pre' = Self
    /\ rendered' = <<>>
    /\ UNCHANGED <<pc, i, new_data, deleted_element, iters>>
    /\ UNCHANGED strVars

DoAppend ==
    \E element \in Values :
        /\ size < MaxSize
        /\ Returns(append(Self, element), None, FALSE)
        /\ op' = [name |-> "append", index |-> size, element |-> element]
        /\ fresh' = fresh
        /\ appended' = IF fresh THEN Append(appended, element) ELSE <<>>
        /\ undo' = NoUndo
        /\ abs' = AbsAppend(abs, element)
        /\ absRet' = NoAbsRet

DoInsert ==
    \E index \in Indices, element \in Values :
        LET r == insert(Self, index, element)
        IN  /\ r.raised \/ size < MaxSize
            /\ Returns(r.self, None, r.raised)
            /\ op' = [name |-> "insert", index |-> index, element |-> element]
            /\ fresh' = FALSE
            /\ appended' = <<>>
            /\ undo' = IF /\ ~r.raised
                          /\ op.name = "delete" /\ ~raised
                          /\ op.index = index /\ ret = element
                       THEN [valid |-> TRUE, self |-> pre]
                       ELSE NoUndo
            /\ abs' = AbsInsert(abs, index, element).q
            /\ absRet' = [raised |-> AbsInsert(abs, index, element).raised,
                          value |-> None]

DoDelete ==
    \E index \in Indices :
        LET r == delete(Self, index)
        IN  /\ Returns(r.self, r.ret, r.raised)
            /\ op' = [name |-> "delete", index |-> index, element |-> None]
            /\ fresh' = FALSE
            /\ appended' = <<>>
            /\ undo' = NoUndo
            /\ abs' = AbsDelete(abs, index).q
            /\ absRet' = [raised |-> AbsDelete(abs, index).raised,
                          value |-> AbsDelete(abs, index).value]

DoGet ==
    \E index \in Indices :
        LET r == get(Self, index)
        IN  /\ Returns(r.self, r.ret, r.raised)
            /\ op' = [name |-> "get", index |-> index, element |-> None]
            /\ fresh' = FALSE
            /\ appended' = <<>>
            /\ undo' = NoUndo
            /\ abs' = AbsGet(abs, index).q
            /\ absRet' = [raised |-> AbsGet(abs, index).raised,
                          value |-> AbsGet(abs, index).value]

\* str(arr): the rendering is returned, no attribute is assigned
DoStr ==
    /\ rendered' = __str__(Self)
    /\ op' = [name |-> "str", index |-> 0, element |-> None]
    /\ pre' = Self
    /\ ret' = None
    /\ raised' = FALSE
    /\ fresh' = FALSE
    /\ appended' = <<>>
    /\ undo' = NoUndo
    /\ absRet' = NoAbsRet
    /\ UNCHANGED <<capacity, size, data, abs>>
    /\ UNCHANGED <<pc, i, new_data, deleted_element, iters>>
    /\ UNCHANGED strVars

Next == DoAppend \/ DoInsert \/ DoDelete \/ DoGet \/ DoStr

Spec == Init /\ [][Next]_vars

-----------------------------------------------------------------------------
(* StepSpec: the same methods, one statement per step.  pc names the source *)
(* line about to run; a call starts and ends at "idle".                      *)

\* a call starts: record it and the array it starts from
Call(name, index, element, first) ==
    /\ pc = "idle"
    /\ op' = [name |-> name, index |-> index, element |-> element]
    /\ pre' = Self
    /\ ret' = None
    /\ raised' = FALSE
    /\ pc' = first
    /\ UNCHANGED <<capacity, size, data, fresh, appended, undo,
                   i, new_data, deleted_element, iters, rendered, abs, absRet>>
    /\ UNCHANGED strVars

\* a call ends, returning r or raising; its locals are gone
Return(r, e) ==
    /\ pc' = "idle"
    /\ ret' = r
    /\ raised' = e
    /\ i' = 0
    /\ new_data' = <<>>
    /\ deleted_element' = None
    /\ iters' = 0

\* what a statement leaves alone besides the attributes and locals it names
StepFrame ==
    /\ UNCHANGED <<op, pre, fresh, appended, undo, rendered, abs, absRet>>
    /\ UNCHANGED strVars

CallAppend ==
    \E element \in Values :
        /\ size < MaxSize
        /\ Call("append", size, element, "append_53")

CallInsert ==
    \E index \in Indices, element \in Values :
        /\ index < 0 \/ index > size \/ size < MaxSize
        /\ Call("insert", index, element, "insert_72")

CallDelete == \E index \in Indices : Call("delete", index, None, "delete_103")

CallGet == \E index \in Indices : Call("get", index, None, "get_129")

\* line 53: if self.size == self.capacity: self._resize()
Append_53 ==
    /\ pc = "append_53"
    /\ pc' = IF size = capacity THEN "resize_35" ELSE "append_55"
    /\ UNCHANGED <<capacity, size, data, ret, raised, i, new_data, deleted_element, iters>>
    /\ StepFrame

\* line 55: self.data[self.size] = element
Append_55 ==
    /\ pc = "append_55"
    /\ data' = SetItem(data, size, op.element)
    /\ pc' = "append_56"
    /\ UNCHANGED <<capacity, size, ret, raised, i, new_data, deleted_element, iters>>
    /\ StepFrame

\* line 56: self.size += 1, and the method returns
Append_56 ==
    /\ pc = "append_56"
    /\ size' = size + 1
    /\ Return(None, FALSE)
    /\ UNCHANGED <<capacity, data>>
    /\ StepFrame

\* line 35: self.capacity = self.capacity * 2
Resize_35 ==
    /\ pc = "resize_35"
    /\ capacity' = capacity * GrowthFactor
    /\ pc' = "resize_36"
    /\ UNCHANGED <<size, data, ret, raised, i, new_data, deleted_element, iters>>
    /\ StepFrame

\* a line 36 that installs the empty buffer at once and fills it afterwards
Resize_36_InstallsFirst ==
    /\ pc = "resize_36"
    /\ new_data' = NoneList(capacity)
    /\ data' = NoneList(capacity)
    /\ iters' = 0
    /\ i' = 0
    /\ pc' = "resize_38"
    /\ UNCHANGED <<capacity, size, ret, raised, deleted_element>>
    /\ StepFrame

\* line 36: new_data = [None] * self.capacity
Resize_36 ==
    /\ pc = "resize_36"
    /\ new_data' = NoneList(capacity)
    /\ iters' = 0
    /\ i' = 0
    /\ pc' = "resize_38"
    /\ UNCHANGED <<capacity, size, data, ret, raised, deleted_element>>
    /\ StepFrame

\* a line 38 that stops one element early: for i in range(self.size - 1)
Resize_38_StopsEarly ==
    /\ pc = "resize_38"
    /\ pc' = IF i < size - 1 THEN "resize_39" ELSE "resize_41"
    /\ UNCHANGED <<capacity, size, data, ret, raised, i, new_data, deleted_element, iters>>
    /\ StepFrame

\* line 38: for i in range(self.size)
Resize_38 ==
    /\ pc = "resize_38"
    /\ pc' = IF i < size THEN "resize_39" ELSE "resize_41"
    /\ UNCHANGED <<capacity, size, data, ret, raised, i, new_data, deleted_element, iters>>
    /\ StepFrame

\* line 39: new_data[i] = self.data[i], and on to the next i
Resize_39 ==
    /\ pc = "resize_39"
    /\ new_data' = SetItem(new_data, i, data[i])
    /\ iters' = iters + 1
    /\ i' = i + 1
    /\ pc' = "resize_38"
    /\ UNCHANGED <<capacity, size, data, ret, raised, deleted_element>>
    /\ StepFrame

\* line 41: self.data = new_data, and _resize returns to its caller
Resize_41 ==
    /\ pc = "resize_41"
    /\ data' = new_data
    /\ new_data' = <<>>
    /\ i' = 0
    /\ pc' = IF op.name = "append" THEN "append_55" ELSE "insert_77"
    /\ UNCHANGED <<capacity, size, ret, raised, deleted_element, iters>>
    /\ StepFrame

\* lines 72-73: if index < 0 or index > self.size: raise IndexError
Insert_72 ==
    /\ pc = "insert_72"
    /\ IF op.index < 0 \/ op.index > size
       THEN Return(None, TRUE)
       ELSE /\ pc' = "insert_74"
            /\ UNCHANGED <<ret, raised, i, new_data, deleted_element, iters>>
    /\ UNCHANGED <<capacity, size, data>>
    /\ StepFrame

\* line 74: if self.size == self.capacity: self._resize()
Insert_74 ==
    /\ pc = "insert_74"
    /\ pc' = IF size = capacity THEN "resize_35" ELSE "insert_77"
    /\ UNCHANGED <<capacity, size, data, ret, raised, i, new_data, deleted_element, iters>>
    /\ StepFrame

\* line 77: i = self.size-1
Insert_77 ==
    /\ pc = "insert_77"
    /\ iters' = 0
    /\ i' = size - 1
    /\ pc' = "insert_78"
    /\ UNCHANGED <<capacity, size, data, ret, raised, new_data, deleted_element>>
    /\ StepFrame

\* line 78: while i >= index
Insert_78 ==
    /\ pc = "insert_78"
    /\ pc' = IF i >= op.index THEN "insert_79" ELSE "insert_82"
    /\ UNCHANGED <<capacity, size, data, ret, raised, i, new_data, deleted_element, iters>>
    /\ StepFrame

\* lines 79-80: self.data[i + 1] = self.data[i]; i -= 1
Insert_79 ==
    /\ pc = "insert_79"
    /\ data' = SetItem(data, i + 1, data[i])
    /\ iters' = iters + 1
    /\ i' = i - 1
    /\ pc' = "insert_78"
    /\ UNCHANGED <<capacity, size, ret, raised, new_data, deleted_element>>
    /\ StepFrame

\* line 82: self.data[index] = element
Insert_82 ==
    /\ pc = "insert_82"
    /\ data' = SetItem(data, op.index, op.element)
    /\ pc' = "insert_83"
    /\ UNCHANGED <<capacity, size, ret, raised, i, new_data, deleted_element, iters>>
    /\ StepFrame

\* line 83: self.size += 1, and the method returns
Insert_83 ==
    /\ pc = "insert_83"
    /\ size' = size + 1
    /\ Return(None, FALSE)
    /\ UNCHANGED <<capacity, data>>
    /\ StepFrame

\* lines 103-104: if index < 0 or index >= self.size: raise IndexError
Delete_103 ==
    /\ pc = "delete_103"
    /\ IF op.index < 0 \/ op.index >= size
       THEN Return(None, TRUE)
       ELSE /\ pc' = "delete_105"
            /\ UNCHANGED <<ret, raised, i, new_data, deleted_element, iters>>
    /\ UNCHANGED <<capacity, size, data>>
    /\ StepFrame

\* line 105: deleted_element = self.data[index]; the loop of line 106 starts at index
Delete_105 ==
    /\ pc = "delete_105"
    /\ deleted_element' = data[op.index]
    /\ iters' = 0
    /\ i' = op.index
    /\ pc' = "delete_106"
    /\ UNCHANGED <<capacity, size, data, ret, raised, new_data>>
    /\ StepFrame

\* a line 106 that runs one element too far: for i in range(index, self.size)
Delete_106_OneTooFar ==
    /\ pc = "delete_106"
    /\ pc' = IF i < size THEN "delete_107" ELSE "delete_109"
    /\ UNCHANGED <<capacity, size, data, ret, raised, i, new_data, deleted_element, iters>>
    /\ StepFrame

\* line 106: for i in range(index, self.size - 1)
Delete_106 ==
    /\ pc = "delete_106"
    /\ pc' = IF i < size - 1 THEN "delete_107" ELSE "delete_109"
    /\ UNCHANGED <<capacity, size, data, ret, raised, i, new_data, deleted_element, iters>>
    /\ StepFrame

\* line 107: self.data[i] = self.data[i + 1], and on to the next i
Delete_107 ==
    /\ pc = "delete_107"
    /\ data' = SetItem(data, i, data[i + 1])
    /\ iters' = iters + 1
    /\ i' = i + 1
    /\ pc' = "delete_106"
    /\ UNCHANGED <<capacity, size, ret, raised, new_data, deleted_element>>
    /\ StepFrame

\* line 109: self.size -= 1
Delete_109 ==
    /\ pc = "delete_109"
    /\ size' = size - 1
    /\ pc' = "delete_110"
    /\ UNCHANGED <<capacity, data, ret, raised, i, new_data, deleted_element, iters>>
    /\ StepFrame

\* lines 110-111: self.data[self.size] = None; return deleted_element
Delete_110 ==
    /\ pc = "delete_110"
    /\ data' = SetItem(data, size, None)
    /\ Return(deleted_element, FALSE)
    /\ UNCHANGED <<capacity, size>>
    /\ StepFrame

\* lines 129-131: raise IndexError when out of range, else return self.data[index]
Get_129 ==
    /\ pc = "get_129"
    /\ IF op.index < 0 \/ op.index >= size
       THEN Return(None, TRUE)
       ELSE Return(data[op.index], FALSE)
    /\ UNCHANGED <<capacity, size, data>>
    /\ StepFrame

StepNext ==
    \/ CallAppend \/ Append_53 \/ Append_55 \/ Append_56
    \/ Resize_35 \/ Resize_36 \/ Resize_38 \/ Resize_39 \/ Resize_41
    \/ CallInsert \/ Insert_72 \/ Insert_74 \/ Insert_77 \/ Insert_78
    \/ Insert_79 \/ Insert_82 \/ Insert_83
    \/ CallDelete \/ Delete_103 \/ Delete_105 \/ Delete_106 \/ Delete_107
    \/ Delete_109 \/ Delete_110
    \/ CallGet \/ Get_129

\* the statements inside a call: everything but the calls themselves
Statement ==
    \/ Append_53 \/ Append_55 \/ Append_56
    \/ Resize_35 \/ Resize_36 \/ Resize_38 \/ Resize_39 \/ Resize_41
    \/ Insert_72 \/ Insert_74 \/ Insert_77 \/ Insert_78
    \/ Insert_79 \/ Insert_82 \/ Insert_83
    \/ Delete_103 \/ Delete_105 \/ Delete_106 \/ Delete_107
    \/ Delete_109 \/ Delete_110
    \/ Get_129

StepSpec == Init /\ [][StepNext]_vars

\* a method is plain synchronous code: once called, its next statement runs.
\* Nothing obliges the caller to make another call.
StepFairSpec == StepSpec /\ WF_vars(Statement)

-----------------------------------------------------------------------------
(* The string functions (algorithms/strings/string_utility_methods.py).     *)
(* A string or list is a sequence of characters; its Python index k is      *)
(* element k + 1 of the sequence.                                           *)

\* the characters: an upper-case letter, lower-case letters, a digit, and two
\* characters that are not alphanumeric
Alphabet == {"A", "a", "b", "1", ",", " "}

\* c.isalnum()
isalnum(c) == c \in {"A", "a", "b", "1"}

\* a lower() that is forgotten: the comparison is case-sensitive
lower_Forgotten(c) == c

\* c.lower()
lower(c) == IF c = "A" THEN "a" ELSE c

\* q[k]: Python counts a negative index from the end and raises IndexError
\* outside [-len(q), len(q))
At(q, k) ==
    IF 0 <= k /\ k < Len(q) THEN q[k + 1]
    ELSE IF -Len(q) <= k /\ k < 0 THEN q[Len(q) + k + 1]
    ELSE "IndexError"

\* s[left], s[right] = s[right], s[left]
Swap(q, left, right) ==
    [q EXCEPT ![left + 1] = q[right + 1], ![right + 1] = q[left + 1]]

\* a reversal loop that forgets right -= 1
RECURSIVE ReverseLoop_RightStays(_, _, _)
ReverseLoop_RightStays(q, left, right) ==
    IF left < right
    THEN ReverseLoop_RightStays(Swap(q, left, right), left + 1, right)
    ELSE q

\* while left < right: swap; left += 1; right -= 1
RECURSIVE ReverseLoop(_, _, _)
ReverseLoop(q, left, right) ==
    IF left < right THEN ReverseLoop(Swap(q, left, right), left + 1, right - 1) ELSE q

\* reverse_string: the list is reversed in place and returned
reverse_string(q) == ReverseLoop(q, 0, Len(q) - 1)

\* while left < right and not s[left].isalnum(): left += 1
\* (reads is the set of indices read so far; s[left] is read only when left < right)
RECURSIVE SkipLeft(_, _, _, _)
SkipLeft(q, left, right, reads) ==
    IF left < right
    THEN IF ~isalnum(At(q, left))
         THEN SkipLeft(q, left + 1, right, reads \cup {left})
         ELSE [left |-> left, reads |-> reads \cup {left}]
    ELSE [left |-> left, reads |-> reads]

\* while left < right and not s[right].isalnum(): right -= 1
RECURSIVE SkipRight(_, _, _, _)
SkipRight(q, left, right, reads) ==
    IF left < right
    THEN IF ~isalnum(At(q, right))
         THEN SkipRight(q, left, right - 1, reads \cup {right})
         ELSE [right |-> right, reads |-> reads \cup {right}]
    ELSE [right |-> right, reads |-> reads]

\* the outer loop of is_palindrome
RECURSIVE PalindromeLoop(_, _, _, _)
PalindromeLoop(q, left, right, reads) ==
    IF left < right
    THEN LET a  == SkipLeft(q, left, right, reads)
             b  == SkipRight(q, a.left, right, a.reads)
             rd == b.reads \cup {a.left, b.right}
         IN  IF lower(At(q, a.left)) # lower(At(q, b.right))
             THEN [value |-> FALSE, reads |-> rd]
             ELSE PalindromeLoop(q, a.left + 1, b.right - 1, rd)
    ELSE [value |-> TRUE, reads |-> reads]

\* is_palindrome: what it returns, and the indices of s it read
is_palindrome(q) == PalindromeLoop(q, 0, Len(q) - 1, {})

\* a scan that drops a character only when it repeats the one before it
RECURSIVE DedupLoop_AdjacentOnly(_, _, _)
DedupLoop_AdjacentOnly(rest, seen, result) ==
    IF rest = <<>> THEN result
    ELSE IF Len(result) > 0 /\ result[Len(result)] = Head(rest)
         THEN DedupLoop_AdjacentOnly(Tail(rest), seen, result)
         ELSE DedupLoop_AdjacentOnly(Tail(rest), seen, Append(result, Head(rest)))

\* for char in s: if char not in seen: result.append(char); seen.add(char)
RECURSIVE DedupLoop(_, _, _)
DedupLoop(rest, seen, result) ==
    IF rest = <<>> THEN result
    ELSE IF Head(rest) \notin seen
         THEN DedupLoop(Tail(rest), seen \cup {Head(rest)}, Append(result, Head(rest)))
         ELSE DedupLoop(Tail(rest), seen, result)

\* remove_duplicates: ''.join(result), a new string
remove_duplicates(q) == DedupLoop(q, {}, <<>>)

\* the strings of at most MaxStrLen characters
Strings == UNION {[1 .. n -> Alphabet] : n \in 0 .. MaxStrLen}

\* the variables of the array
arrayVars == <<capacity, size, data, op, pre, ret, raised, fresh, appended, undo,
               pc, i, new_data, deleted_element, iters, rendered, abs, absRet>>

\* the array variables while only the string functions are run
ArrayIdle ==
    /\ capacity = NewArray.capacity
    /\ size = NewArray.size
    /\ data = NewArray.data
    /\ op = NoCall
    /\ pre = NewArray
    /\ ret = None
    /\ raised = FALSE
    /\ fresh = TRUE
    /\ appended = <<>>
    /\ undo = NoUndo
    /\ pc = "idle"
    /\ i = 0
    /\ new_data = <<>>
    /\ deleted_element = None
    /\ iters = 0
    /\ rendered = <<>>
    /\ abs = <<>>
    /\ absRet = NoAbsRet

\* any string is the argument
StringInit ==
    /\ ArrayIdle
    /\ text \in Strings
    /\ textPre = text
    /\ fn = "none"
    /\ returned = <<>>
    /\ verdict = NoVerdict

\* reverse_string(s): s is a list, reversed in place; the list itself is returned
CallReverseString ==
    /\ text' = reverse_string(text)
    /\ returned' = text'
    /\ textPre' = text
    /\ fn' = "reverse_string"
    /\ verdict' = NoVerdict
    /\ UNCHANGED arrayVars

\* is_palindrome(s): s is only read
CallIsPalindrome ==
    /\ verdict' = is_palindrome(text)
    /\ textPre' = text
    /\ fn' = "is_palindrome"
    /\ returned' = <<>>
    /\ UNCHANGED text
    /\ UNCHANGED arrayVars

\* remove_duplicates(s): s is only read, a new string is returned
CallRemoveDuplicates ==
    /\ returned' = remove_duplicates(text)
    /\ textPre' = text
    /\ fn' = "remove_duplicates"
    /\ verdict' = NoVerdict
    /\ UNCHANGED text
    /\ UNCHANGED arrayVars

StringNext == CallReverseString \/ CallIsPalindrome \/ CallRemoveDuplicates

StringSpec == StringInit /\ [][StringNext]_vars

-----------------------------------------------------------------------------
(* Properties of whole calls, checked under Spec *)

\* capacity is 2, or twice a capacity that is reachable from 2 by doubling
RECURSIVE ReachableByDoubling(_)
ReachableByDoubling(c) ==
    \/ c = 2
    \/ c > 2 /\ c % 2 = 0 /\ ReachableByDoubling(c \div 2)

\* C1: after any sequence of calls, failing ones included, 0 <= size <= capacity,
\* capacity >= 2, and capacity is reachable from 2 by repeated doubling.
C1_SizeCapacityInvariant ==
    /\ 0 <= size
    /\ size <= capacity
    /\ capacity >= 2
    /\ ReachableByDoubling(capacity)

\* an array that grew twice, was emptied again, and then rejected a call
C1_Witness == capacity = 8 /\ size = 0 /\ raised

\* the smallest power of two that is >= m, found by doubling up from p
RECURSIVE PowerOfTwoFrom(_, _)
PowerOfTwoFrom(p, m) == IF p >= m THEN p ELSE PowerOfTwoFrom(2 * p, m)

SmallestPowerOfTwoAtLeast(m) == PowerOfTwoFrom(1, m)

Max(a, b) == IF a >= b THEN a ELSE b

\* C2: appending n elements to a new array gives size = n, capacity = the smallest
\* power of two >= max(2, n), and get(k) returns the k-th appended element.
C2_AppendFromEmpty ==
    fresh =>
        LET n == Len(appended)
        IN  /\ size = n
            /\ capacity = SmallestPowerOfTwoAtLeast(Max(2, n))
            /\ \A k \in 0 .. n - 1 :
                   /\ ~get(Self, k).raised
                   /\ get(Self, k).ret = appended[k + 1]

\* five appends to a new array: the buffer has grown twice
C2_Witness == fresh /\ Len(appended) = 5 /\ op.name = "append"

\* the last call was an insert with an index in [0, size]
ValidInsert == op.name = "insert" /\ 0 <= op.index /\ op.index <= pre.size

\* C3: insert(i, v) with 0 <= i <= size succeeds; then get(i) returns v, size has
\* grown by exactly 1, and every element that was at p >= i is at p + 1, also when
\* the insert made the buffer grow.
C3_InsertShiftsRight ==
    ValidInsert =>
        /\ ~raised
        /\ ~get(Self, op.index).raised
        /\ get(Self, op.index).ret = op.element
        /\ size = pre.size + 1
        /\ \A p \in op.index .. pre.size - 1 : data[p + 1] = pre.data[p]

\* an insert at the front of a full array of four: growth, then four shifts
C3_Witness ==
    /\ ValidInsert /\ ~raised
    /\ op.index = 0 /\ pre.size = 4 /\ pre.capacity = 4 /\ capacity = 8

\* the last call was a delete with an index in [0, size)
ValidDelete == op.name = "delete" /\ 0 <= op.index /\ op.index < pre.size

\* C4: delete(i) with 0 <= i < size returns the element that was at i, lowers
\* size by exactly 1, leaves the elements below i where they were and moves every
\* element that was at p > i to p - 1; deleting the last element succeeds.
C4_DeleteShiftsLeft ==
    ValidDelete =>
        /\ ~raised
        /\ ret = pre.data[op.index]
        /\ size = pre.size - 1
        /\ \A p \in 0 .. op.index - 1 : data[p] = pre.data[p]
        /\ \A p \in op.index + 1 .. pre.size - 1 : data[p - 1] = pre.data[p]

\* a delete of the last of at least three elements: no shift at all
C4_Witness == ValidDelete /\ ~raised /\ op.index = pre.size - 1 /\ pre.size >= 3

\* the last call had an index outside the range its method accepts
OutOfRangeCall ==
    \/ /\ op.name \in {"get", "delete"}
       /\ (op.index < 0 \/ op.index >= pre.size)
    \/ /\ op.name = "insert"
       /\ (op.index < 0 \/ op.index > pre.size)

\* C5: a get or delete with i < 0 or i >= size, and an insert with i < 0 or
\* i > size, raises IndexError and leaves size, capacity and the buffer as they
\* were; a full array does not grow on a rejected insert.
C5_OutOfRangeRejected == OutOfRangeCall => raised /\ Self = pre

\* an insert beyond the end of a full array
C5_Witness ==
    /\ op.name = "insert" /\ raised
    /\ op.index > pre.size /\ pre.size = pre.capacity /\ pre.size = 4

\* C6: delete(i) followed by insert(i, x), x being what the delete returned,
\* restores the logical sequence, the size and the capacity of before the delete.
C6_DeleteInsertInverse ==
    undo.valid =>
        /\ size = undo.self.size
        /\ capacity = undo.self.capacity
        /\ Logical(Self) = Logical(undo.self)

\* an element taken out of the middle of a full array of four and put back
C6_Witness ==
    /\ undo.valid /\ op.name = "insert" /\ op.index = 1
    /\ undo.self.size = 4 /\ undo.self.capacity = 4

\* C8: no call ever lowers capacity, deletes down to size 0 included.
C8_CapacityNeverShrinks == [][capacity' >= capacity]_vars

\* the last element was deleted from an array that had grown to capacity 8
C8_Witness == op.name = "delete" /\ ~raised /\ size = 0 /\ capacity = 8

\* the last call was a get with an index in [0, size)
ValidGet == op.name = "get" /\ 0 <= op.index /\ op.index < pre.size

\* C10: get(i) with 0 <= i < size returns the i-th element of the logical
\* sequence and leaves size, capacity and the buffer unchanged.
C10_GetIsPure ==
    ValidGet =>
        /\ ~raised
        /\ ret = Logical(pre)[op.index]
        /\ Self = pre

\* a get of the last of five elements
C10_Witness == ValidGet /\ ~raised /\ op.index = 4 /\ pre.size = 5

\* slots [0, n) of a buffer as a sequence
AsSequence(d, n) == [k \in 1 .. n |-> d[k - 1]]

\* C14: run side by side with a mathematical sequence (append adds at the end,
\* insert puts at position i, delete takes position i out, a failing call changes
\* nothing), slots [0, size) equal the sequence element for element, size is its
\* length, and every get and delete returns what the sequence operation returns.
C14_RefinesSequence ==
    /\ size = Len(abs)
    /\ AsSequence(data, size) = abs
    /\ op.name \in {"insert", "delete", "get"} => raised = absRet.raised
    /\ op.name \in {"delete", "get"} => ret = absRet.value

\* an element was taken out of the middle of four, in a buffer that grew twice
C14_Witness ==
    /\ op.name = "delete" /\ ~raised /\ op.index = 1
    /\ Len(abs) = 3 /\ abs[1] # abs[2] /\ capacity = 8

\* C15: a call leaves capacity unchanged or exactly doubles it; it doubles it if
\* and only if it is an append, or an insert with a valid index, that starts with
\* size = capacity; get, delete, rendering and failing calls leave it unchanged.
C15_DoublesExactlyWhenFull ==
    /\ capacity = pre.capacity \/ capacity = 2 * pre.capacity
    /\ capacity = 2 * pre.capacity <=>
           /\ op.name = "append" \/ ValidInsert
           /\ pre.size = pre.capacity
    /\ op.name \in {"get", "delete", "str"} \/ raised => capacity = pre.capacity

\* an insert at the end of a full array of four doubled the capacity once
C15_Witness ==
    /\ ValidInsert /\ op.index = pre.size
    /\ pre.capacity = 4 /\ capacity = 8 /\ size = 5

\* C16: the buffer has exactly capacity slots and every slot in [size, capacity)
\* holds the placeholder; delete clears the slot it vacates.
C16_UnusedSlotsCleared ==
    /\ DOMAIN data = 0 .. capacity - 1
    /\ ListLen(data) = capacity
    /\ \A k \in size .. capacity - 1 : data[k] = None

\* the first element of a full array of four was deleted: slot 3 was vacated
C16_Witness ==
    /\ ValidDelete /\ ~raised /\ op.index = 0
    /\ pre.size = 4 /\ pre.capacity = 4 /\ pre.data[3] # None

\* C17: insert(size, v) leaves the array exactly as append(v) leaves it, from the
\* same starting state, empty and full arrays included.
C17_InsertAtEndIsAppend ==
    /\ ValidInsert /\ op.index = pre.size =>
           ~raised /\ Self = append(pre, op.element)
    /\ op.name = "append" =>
           /\ ~insert(pre, pre.size, op.element).raised
           /\ Self = insert(pre, pre.size, op.element).self

\* an insert at the end of a full array of four
C17_Witness ==
    /\ ValidInsert /\ ~raised /\ op.index = pre.size
    /\ pre.size = 4 /\ pre.capacity = 4

\* the position of the first c in a sequence, or 0
RECURSIVE FirstIndex(_, _, _)
FirstIndex(q, c, k) ==
    IF k > Len(q) THEN 0 ELSE IF q[k] = c THEN k ELSE FirstIndex(q, c, k + 1)

\* the pieces of a character sequence between the separators ", "
RECURSIVE SplitOnCommaSpace(_, _, _)
SplitOnCommaSpace(rest, piece, pieces) ==
    IF rest = <<>> THEN Append(pieces, piece)
    ELSE IF Head(rest) = "," /\ Len(rest) >= 2 /\ rest[2] = " "
         THEN SplitOnCommaSpace(SubSeq(rest, 3, Len(rest)), <<>>, Append(pieces, piece))
         ELSE SplitOnCommaSpace(Tail(rest), Append(piece, Head(rest)), pieces)

\* the entries listed between "[" and the first "]" of a rendering
ListedEntries(t) ==
    SplitOnCommaSpace(SubSeq(t, 2, FirstIndex(t, "]", 1) - 1), <<>>, <<>>)

\* what follows the entries of a rendering of n elements in c slots
Report(n, c) ==
    <<"]", " ", "(", "s", "i", "z", "e", ":", " ">> \o Decimal(n)
    \o <<",", " ", "c", "a", "p", "a", "c", "i", "t", "y", ":", " ">>
    \o Decimal(c) \o <<")">>

\* C19: the rendering lists exactly capacity entries, the first size of them the
\* live elements in index order and the other capacity - size placeholder
\* markers, reports size and capacity, and leaves the array unchanged.
C19_RenderingListsEverySlot ==
    op.name = "str" =>
        LET entries == ListedEntries(rendered)
            close   == FirstIndex(rendered, "]", 1)
        IN  /\ Head(rendered) = "["
            /\ close > 0
            /\ Len(entries) = capacity
            /\ \A k \in 1 .. size : entries[k] = Decimal(data[k - 1])
            /\ \A k \in size + 1 .. capacity : entries[k] = <<"_">>
            /\ SubSeq(rendered, close, Len(rendered)) = Report(size, capacity)
            /\ Self = pre

\* a rendering of three elements in four slots
C19_Witness == op.name = "str" /\ size = 3 /\ capacity = 4 /\ data[0] # data[1]


-----------------------------------------------------------------------------
(* Properties of the statements of a call, checked under StepSpec *)

\* a finished call has done what the whole-call operator computes
StepMatchesCall ==
    pc = "idle" =>
        /\ op.name = "append" => Self = append(pre, op.element) /\ ~raised
        /\ op.name = "insert" =>
               /\ Self = insert(pre, op.index, op.element).self
               /\ raised = insert(pre, op.index, op.element).raised
        /\ op.name = "delete" =>
               /\ Self = delete(pre, op.index).self
               /\ raised = delete(pre, op.index).raised
               /\ ret = delete(pre, op.index).ret
        /\ op.name = "get" =>
               /\ Self = get(pre, op.index).self
               /\ raised = get(pre, op.index).raised
               /\ ret = get(pre, op.index).ret

\* the statements of _resize
ResizeLines == {"resize_35", "resize_36", "resize_38", "resize_39", "resize_41"}

\* _resize has just returned to the append or insert that called it
JustGrown == pc \in {"append_55", "insert_77"} /\ pre.size = pre.capacity

\* C7: growth never loses or reorders elements: size is unchanged by the growth
\* step, slots [0, size) after it equal slots [0, size) before it, and the new
\* slots [size, new capacity) hold the placeholder.
C7_GrowthKeepsElements ==
    /\ pc \in ResizeLines => size = pre.size
    /\ JustGrown =>
           /\ size = pre.size
           /\ capacity = pre.capacity * 2
           /\ DOMAIN data = 0 .. capacity - 1
           /\ Logical(Self) = Logical(pre)
           /\ \A k \in size .. capacity - 1 : data[k] = None

\* a full array of four has just grown inside an insert
C7_Witness == JustGrown /\ op.name = "insert" /\ pre.size = 4 /\ capacity = 8

\* every live element is in the installed buffer, at its index
LiveElementsInstalled ==
    \A k \in 0 .. size - 1 : k \in DOMAIN data /\ data[k] = pre.data[k]

\* C9 as claimed: at no point of a growth step does capacity differ from the
\* length of the installed buffer, or is a live element missing from it.
C9_NoPartialGrowthObservable ==
    pc \in ResizeLines => ListLen(data) = capacity /\ LiveElementsInstalled

\* C9: the new buffer is installed by one assignment, made after every live
\* element has been copied, so no live element is ever missing from the installed
\* buffer; capacity is doubled before that, so from line 35 until line 41 has run
\* capacity is twice the length of the installed buffer, and it equals that
\* length at every other point.
C9_BufferInstalledWhole ==
    /\ pc \in ResizeLines => LiveElementsInstalled /\ size = pre.size
    /\ pc \in ResizeLines \ {"resize_35"} => capacity = 2 * ListLen(data)
    /\ pc \notin ResizeLines \ {"resize_35"} => capacity = ListLen(data)

\* the copy of four elements is complete and the new buffer not yet installed
C9_Witness ==
    /\ pc = "resize_41" /\ capacity = 8 /\ ListLen(data) = 4
    /\ \A k \in 0 .. size - 1 : new_data[k] = data[k]

\* the loops touch only slots of the list they index, all of them below capacity
LoopIndicesInRange ==
    /\ pc = "insert_79" =>
           /\ 0 <= i /\ i + 1 < capacity
           /\ i \in DOMAIN data /\ i + 1 \in DOMAIN data
    /\ pc = "delete_107" =>
           /\ 0 <= i /\ i + 1 < capacity
           /\ i \in DOMAIN data /\ i + 1 \in DOMAIN data
    /\ pc = "resize_39" =>
           /\ 0 <= i /\ i < capacity
           /\ i \in DOMAIN data /\ i \in DOMAIN new_data

\* each loop is left after exactly the claimed number of iterations
LoopIterationCounts ==
    /\ pc = "insert_82" => iters = size - op.index
    /\ pc = "delete_109" => iters = size - 1 - op.index
    /\ pc = "resize_41" => iters = size

\* C18: every call runs to completion; the shift loop of insert ends after exactly
\* size - index iterations, that of delete after exactly size - 1 - index, the copy
\* loop of growth after exactly size, and no loop reads or writes a buffer index
\* outside [0, capacity).
C18_CallsRunToCompletion ==
    /\ [](LoopIndicesInRange /\ LoopIterationCounts)
    /\ (pc # "idle") ~> (pc = "idle")

\* an insert at the front of a full array of four has left its shift loop
C18_Witness ==
    /\ pc = "insert_82" /\ op.index = 0 /\ iters = 4
    /\ pre.size = 4 /\ pre.capacity = 4 /\ capacity = 8

-----------------------------------------------------------------------------
(* Properties of the string functions, checked under StringSpec *)

\* a sequence back to front
Reversed(q) == [k \in 1 .. Len(q) |-> q[Len(q) + 1 - k]]

\* the alphanumeric characters of a string, in order
RECURSIVE Alphanumerics(_)
Alphanumerics(q) ==
    IF q = <<>> THEN <<>>
    ELSE IF Head(q) \in {"A", "a", "b", "1"}
         THEN <<Head(q)>> \o Alphanumerics(Tail(q))
         ELSE Alphanumerics(Tail(q))

\* a string with its upper-case letters replaced by their lower-case letters
LowerCased(q) == [k \in 1 .. Len(q) |-> IF q[k] = "A" THEN "a" ELSE q[k]]

\* C11: is_palindrome(s) is true exactly when the alphanumeric characters of s,
\* lower-cased, read the same in both directions, and it reads no index outside
\* [0, len(s)).
C11_IsPalindrome ==
    fn = "is_palindrome" =>
        LET letters == LowerCased(Alphanumerics(text))
        IN  /\ verdict.value <=> (letters = Reversed(letters))
            /\ verdict.reads \subseteq 0 .. Len(text) - 1

\* "A, ba": true only when case and the two other characters are ignored
C11_Witness ==
    /\ fn = "is_palindrome" /\ verdict.value
    /\ text = <<"A", ",", "b", "a">>

\* the characters that occur in a sequence
Characters(q) == {q[k] : k \in 1 .. Len(q)}

\* C12: remove_duplicates(s) returns each distinct character of s exactly once,
\* in the order of the first occurrences in s; s is not modified, and
\* remove_duplicates of the result is the result.
C12_RemoveDuplicates ==
    fn = "remove_duplicates" =>
        /\ Characters(returned) = Characters(text)
        /\ \A j, k \in 1 .. Len(returned) : j # k => returned[j] # returned[k]
        /\ \A j, k \in 1 .. Len(returned) :
               j < k => FirstIndex(text, returned[j], 1) < FirstIndex(text, returned[k], 1)
        /\ text = textPre
        /\ remove_duplicates(returned) = returned

\* "baba" gives "ba"
C12_Witness ==
    /\ fn = "remove_duplicates"
    /\ text = <<"b", "a", "b", "a">> /\ returned = <<"b", "a">>

\* C13: reverse_string(s) leaves at position k the element that was at position
\* n - 1 - k, returns the list it was given, and a second call restores the order.
C13_ReverseString ==
    fn = "reverse_string" =>
        LET n == Len(textPre)
        IN  /\ Len(text) = n
            /\ \A k \in 0 .. n - 1 : text[k + 1] = textPre[n - k]
            /\ returned = text
            /\ reverse_string(text) = textPre

\* a list of three with different ends was reversed: the middle stays
C13_Witness ==
    /\ fn = "reverse_string" /\ Len(textPre) = 3
    /\ textPre[1] # textPre[3] /\ textPre[1] # textPre[2]

====
